---- MODULE Spec2Model ----
(***************************************************************************)
(* Model of the charging planner of ladning (src/ladning/charging_plan.py) *)
(*                                                                         *)
(* Numbers.  The Python code computes with floats; the model computes the  *)
(* same expressions exactly, in integer units chosen so that every value   *)
(* the code can produce for integer battery percentages is an integer:     *)
(*   time    1 hour  = HOUR time units (HOUR = 16*19*53 = 16112)           *)
(*   energy  1 kWh   = 80560*424 = 34157440 energy units                   *)
(*   rate    energy units per time unit (10.6 kW = 22472, 7.6 kW = 16112)  *)
(*   price   1 DKK/kWh = 100 price units                                   *)
(*   cost    price units * energy units                                    *)
(*   range   1 km = 100 range units                                        *)
(* A datetime is a number of time units since an arbitrary epoch, and a    *)
(* timedelta is a number of time units.  Floating-point rounding and the   *)
(* microsecond rounding of timedelta are not modelled.                     *)
(***************************************************************************)
EXTENDS Integers, Sequences, FiniteSets, TLC

VARIABLES
    pc,             \* position of the modelled caller
    battery,        \* argument battery_state of calculate_energy_need
    target,         \* argument target_state of calculate_energy_need
    energy_need,    \* outcome of calculate_energy_need
    shifted_need,   \* outcome of shift_fractional_forward
    signal1,        \* first argument of convolve_valid
    signal2,        \* second argument of convolve_valid
    convolved,      \* result of convolve_valid
    vehicle,        \* argument vehicle_charge_state of create_charging_plan
    prices,         \* argument hourly_prices of create_charging_plan
    request,        \* argument charging_request of create_charging_plan
    clock,          \* the values dt.datetime.now() returns during the call
    response,       \* outcome of create_charging_plan
    self_hourly_prices,         \* ApplicationState._hourly_prices
    self_vehicle_charge_state,  \* ApplicationState._vehicle_charge_state
    self_charging_plan,         \* ApplicationState._charging_plan
    self_charging_request,      \* ApplicationState._charging_request
    charger,        \* the Easee charger: its chargerOpMode and basic charge plan
    queue,          \* the state changes listen_for_charging_states has yet to yield
    tasks           \* the coroutines on the event loop: position and locals

plannerVars == <<pc, battery, target, energy_need, shifted_need, signal1, signal2,
                 convolved, vehicle, prices, request, clock, response>>
appVars == <<self_hourly_prices, self_vehicle_charge_state, self_charging_plan,
             self_charging_request, charger, queue, tasks>>
vars == <<pc, battery, target, energy_need, shifted_need, signal1, signal2,
          convolved, vehicle, prices, request, clock, response,
          self_hourly_prices, self_vehicle_charge_state, self_charging_plan,
          self_charging_request, charger, queue, tasks>>

----------------------------------------------------------------------------
(* Units and program constants *)

HOUR == 16 * 19 * 53

\* 57.5 kWh in energy units
BATTERY_CAPACITY_KWH == 1964052800
\* 10.6 kW in energy units per time unit
CHARGING_KW_MAX == 22472
\* 7.6 kW in energy units per time unit
CHARGING_KW_END == 16112
\* 450 km
APPROX_MAX_RANGE_KM == 450
\* 0.94 DKK/kWh in price units
TAX_REFUND_DKK_KWH == 94

----------------------------------------------------------------------------
(* Python values *)

\* Optional[T]: None is the empty sequence, a value x is <<x>>
None == <<>>
Some(x) == <<x>>

\* Outcome of a call: a returned value, or a raised exception (its class and
\* which raise statement it came from)
Returned(v) == [raised |-> "", message |-> "", value |-> v]
Raised(class, msg) == [raised |-> class, message |-> msg, value |-> None]

\* [x] * n
Repeat(x, n) == [i \in 1..n |-> x]

RECURSIVE sum(_)
sum(s) == IF s = <<>> THEN 0 ELSE Head(s) + sum(Tail(s))

\* min(a, b) of Python
Min2(a, b) == IF b < a THEN b ELSE a

\* math.modf for x >= 0: <<fractional part, whole part>>, the whole part as a
\* number of hours
modf(x) == <<x % HOUR, x \div HOUR>>

\* math.ceil of a duration, as a number of hours
ceil(x) == (x + HOUR - 1) \div HOUR

\* e * f for an energy e and a fraction of an hour f (f time units of HOUR),
\* computed without leaving 32 bits
MulFraction(e, f) == (e \div HOUR) * f + ((e % HOUR) * f) \div HOUR

EnergyNeed(signal, hours) == [energy_signal |-> signal, hours_required |-> hours]

----------------------------------------------------------------------------
(* calculate_energy_need *)

\* ((pct) / 100.0) * BATTERY_CAPACITY_KWH / rate, in time units
HoursToCharge(pct, rate) == (pct * (BATTERY_CAPACITY_KWH \div 100)) \div rate

\* calculate_energy_need charging the part above 95% in slots of its own,
\* leaving the open partial hour of the part below 95% as it is
calculate_energy_need_unmerged(battery_state, target_state) ==
    IF battery_state < 0 \/ battery_state > 100
    THEN Raised("RuntimeError", "Starting battery state has to be in range [0, 100]")
    ELSE IF target_state < 0 \/ target_state > 100
    THEN Raised("RuntimeError", "Target battery state has to be in range [0, 100]")
    ELSE IF battery_state >= target_state THEN Returned(None)
    ELSE IF target_state < 95 THEN
        LET hours_required == HoursToCharge(target_state - battery_state, CHARGING_KW_MAX)
            fractional_hour == modf(hours_required)[1]
            full_hours == modf(hours_required)[2]
            energy_signal == Repeat(CHARGING_KW_MAX * HOUR, full_hours)
                             \o <<CHARGING_KW_MAX * fractional_hour>>
        IN  Returned(Some(EnergyNeed(energy_signal, hours_required)))
    ELSE
        LET hours_required_to_95_percent == HoursToCharge(95 - battery_state, CHARGING_KW_MAX)
            hours_required_from_95_percent == HoursToCharge(target_state - 95, CHARGING_KW_END)
            \* after the block 'if hours_required_to_95_percent > 0'
            fractional_hour_to_95 == modf(hours_required_to_95_percent)[1]
            full_hours_to_95 == modf(hours_required_to_95_percent)[2]
            signal_a == IF hours_required_to_95_percent > 0
                        THEN Repeat(CHARGING_KW_MAX * HOUR, full_hours_to_95)
                             \o (IF fractional_hour_to_95 > 0
                                 THEN <<CHARGING_KW_MAX * fractional_hour_to_95>>
                                 ELSE <<>>)
                        ELSE <<>>
            hours_a == IF hours_required_to_95_percent > 0
                       THEN hours_required_to_95_percent ELSE 0
            \* the block 'if hours_required_from_95_percent > 0'
            available_time == HOUR - modf(hours_required_to_95_percent)[1]
            used_time == 0
            signal_b == IF Len(signal_a) > 0
                        THEN [signal_a EXCEPT ![Len(signal_a)] = @ + used_time * CHARGING_KW_END]
                        ELSE signal_a
            remaining_from_95 == hours_required_from_95_percent - used_time
            fractional_hour_from_95 == modf(remaining_from_95)[1]
            full_hours_from_95 == modf(remaining_from_95)[2]
            signal_c == signal_b \o Repeat(CHARGING_KW_END * HOUR, full_hours_from_95)
                        \o (IF fractional_hour_from_95 > 0
                            THEN <<CHARGING_KW_END * fractional_hour_from_95>>
                            ELSE <<>>)
        IN  IF hours_required_from_95_percent > 0
            THEN Returned(Some(EnergyNeed(signal_c, hours_a + hours_required_from_95_percent)))
            ELSE Returned(Some(EnergyNeed(signal_a, hours_a)))

\* calculate_energy_need without the test 'if fractional_hour > 0' on the part
\* above 95%
calculate_energy_need_unguarded(battery_state, target_state) ==
    IF battery_state < 0 \/ battery_state > 100
    THEN Raised("RuntimeError", "Starting battery state has to be in range [0, 100]")
    ELSE IF target_state < 0 \/ target_state > 100
    THEN Raised("RuntimeError", "Target battery state has to be in range [0, 100]")
    ELSE IF battery_state >= target_state THEN Returned(None)
    ELSE IF target_state < 95 THEN
        LET hours_required == HoursToCharge(target_state - battery_state, CHARGING_KW_MAX)
            fractional_hour == modf(hours_required)[1]
            full_hours == modf(hours_required)[2]
            energy_signal == Repeat(CHARGING_KW_MAX * HOUR, full_hours)
                             \o <<CHARGING_KW_MAX * fractional_hour>>
        IN  Returned(Some(EnergyNeed(energy_signal, hours_required)))
    ELSE
        LET hours_required_to_95_percent == HoursToCharge(95 - battery_state, CHARGING_KW_MAX)
            hours_required_from_95_percent == HoursToCharge(target_state - 95, CHARGING_KW_END)
            \* after the block 'if hours_required_to_95_percent > 0'
            fractional_hour_to_95 == modf(hours_required_to_95_percent)[1]
            full_hours_to_95 == modf(hours_required_to_95_percent)[2]
            signal_a == IF hours_required_to_95_percent > 0
                        THEN Repeat(CHARGING_KW_MAX * HOUR, full_hours_to_95)
                             \o (IF fractional_hour_to_95 > 0
                                 THEN <<CHARGING_KW_MAX * fractional_hour_to_95>>
                                 ELSE <<>>)
                        ELSE <<>>
            hours_a == IF hours_required_to_95_percent > 0
                       THEN hours_required_to_95_percent ELSE 0
            \* the block 'if hours_required_from_95_percent > 0'
            available_time == HOUR - modf(hours_required_to_95_percent)[1]
            used_time == IF Len(signal_a) > 0
                         THEN Min2(available_time, hours_required_from_95_percent)
                         ELSE 0
            signal_b == IF Len(signal_a) > 0
                        THEN [signal_a EXCEPT ![Len(signal_a)] = @ + used_time * CHARGING_KW_END]
                        ELSE signal_a
            remaining_from_95 == hours_required_from_95_percent - used_time
            fractional_hour_from_95 == modf(remaining_from_95)[1]
            full_hours_from_95 == modf(remaining_from_95)[2]
            signal_c == signal_b \o Repeat(CHARGING_KW_END * HOUR, full_hours_from_95)
                        \o <<CHARGING_KW_END * fractional_hour_from_95>>
        IN  IF hours_required_from_95_percent > 0
            THEN Returned(Some(EnergyNeed(signal_c, hours_a + hours_required_from_95_percent)))
            ELSE Returned(Some(EnergyNeed(signal_a, hours_a)))

calculate_energy_need(battery_state, target_state) ==
    IF battery_state < 0 \/ battery_state > 100
    THEN Raised("RuntimeError", "Starting battery state has to be in range [0, 100]")
    ELSE IF target_state < 0 \/ target_state > 100
    THEN Raised("RuntimeError", "Target battery state has to be in range [0, 100]")
    ELSE IF battery_state >= target_state THEN Returned(None)
    ELSE IF target_state < 95 THEN
        LET hours_required == HoursToCharge(target_state - battery_state, CHARGING_KW_MAX)
            fractional_hour == modf(hours_required)[1]
            full_hours == modf(hours_required)[2]
            energy_signal == Repeat(CHARGING_KW_MAX * HOUR, full_hours)
                             \o <<CHARGING_KW_MAX * fractional_hour>>
        IN  Returned(Some(EnergyNeed(energy_signal, hours_required)))
    ELSE
        LET hours_required_to_95_percent == HoursToCharge(95 - battery_state, CHARGING_KW_MAX)
            hours_required_from_95_percent == HoursToCharge(target_state - 95, CHARGING_KW_END)
            \* after the block 'if hours_required_to_95_percent > 0'
            fractional_hour_to_95 == modf(hours_required_to_95_percent)[1]
            full_hours_to_95 == modf(hours_required_to_95_percent)[2]
            signal_a == IF hours_required_to_95_percent > 0
                        THEN Repeat(CHARGING_KW_MAX * HOUR, full_hours_to_95)
                             \o (IF fractional_hour_to_95 > 0
                                 THEN <<CHARGING_KW_MAX * fractional_hour_to_95>>
                                 ELSE <<>>)
                        ELSE <<>>
            hours_a == IF hours_required_to_95_percent > 0
                       THEN hours_required_to_95_percent ELSE 0
            \* the block 'if hours_required_from_95_percent > 0'
            available_time == HOUR - modf(hours_required_to_95_percent)[1]
            used_time == IF Len(signal_a) > 0
                         THEN Min2(available_time, hours_required_from_95_percent)
                         ELSE 0
            signal_b == IF Len(signal_a) > 0
                        THEN [signal_a EXCEPT ![Len(signal_a)] = @ + used_time * CHARGING_KW_END]
                        ELSE signal_a
            remaining_from_95 == hours_required_from_95_percent - used_time
            fractional_hour_from_95 == modf(remaining_from_95)[1]
            full_hours_from_95 == modf(remaining_from_95)[2]
            signal_c == signal_b \o Repeat(CHARGING_KW_END * HOUR, full_hours_from_95)
                        \o (IF fractional_hour_from_95 > 0
                            THEN <<CHARGING_KW_END * fractional_hour_from_95>>
                            ELSE <<>>)
        IN  IF hours_required_from_95_percent > 0
            THEN Returned(Some(EnergyNeed(signal_c, hours_a + hours_required_from_95_percent)))
            ELSE Returned(Some(EnergyNeed(signal_a, hours_a)))

----------------------------------------------------------------------------
(* shift_fractional_forward *)

\* the loop 'for i in range(len(energy_signal) - 1)' from index i (0-based)
\* with the current value of 'shift' and the list built so far
RECURSIVE ShiftLoop(_, _, _, _)
ShiftLoop(energy_signal, i, shift, new_energy_signal) ==
    IF i >= Len(energy_signal) - 1 THEN new_energy_signal
    ELSE LET remaining == energy_signal[i + 1] - shift
             next_shift == Min2(energy_signal[i + 1] - remaining, energy_signal[i + 2])
         IN  ShiftLoop(energy_signal, i + 1, next_shift,
                       Append(new_energy_signal, remaining + next_shift))

shift_fractional_forward(need) ==
    LET fractional_hour == modf(need.hours_required)[1]
        shift == MulFraction(need.energy_signal[1], fractional_hour)
    IN  EnergyNeed(ShiftLoop(need.energy_signal, 0, shift, <<shift>>),
                   need.hours_required)

----------------------------------------------------------------------------
(* convolve_valid *)

\* the loop 'for j in range(len2)' from index j (0-based) with the current
\* value of conv_sum
RECURSIVE ConvInner(_, _, _, _, _)
ConvInner(s1, s2, i, j, conv_sum) ==
    IF j >= Len(s2) THEN conv_sum
    ELSE ConvInner(s1, s2, i, j + 1, conv_sum + s1[i + j + 1] * s2[j + 1])

\* the loop 'for i in range(valid_length)' from index i (0-based) with the
\* list built so far
RECURSIVE ConvOuter(_, _, _, _, _)
ConvOuter(s1, s2, valid_length, i, result) ==
    IF i >= valid_length THEN result
    ELSE ConvOuter(s1, s2, valid_length, i + 1,
                   Append(result, ConvInner(s1, s2, i, 0, 0)))

\* convolve_valid with the off-by-one 'valid_length = len1 - len2'
convolve_valid_short(s1, s2) ==
    LET len1 == Len(s1)
        len2 == Len(s2)
        valid_length == len1 - len2
    IN  IF valid_length <= 0 \/ len2 = 0 THEN <<>>
        ELSE ConvOuter(s1, s2, valid_length, 0, <<>>)

convolve_valid(s1, s2) ==
    LET len1 == Len(s1)
        len2 == Len(s2)
        valid_length == len1 - len2 + 1
    IN  IF valid_length <= 0 \/ len2 = 0 THEN <<>>
        ELSE ConvOuter(s1, s2, valid_length, 0, <<>>)

----------------------------------------------------------------------------
(* argmin, min *)

\* min(a) of a non-empty list
RECURSIVE min(_)
min(a) == IF Len(a) = 1 THEN a[1] ELSE Min2(a[1], min(Tail(a)))

\* min(range(len(a)), key=lambda x: a[x], default=-1): the scan keeps the
\* first index whose value is strictly below every earlier one (0-based)
RECURSIVE ArgminScan(_, _, _)
ArgminScan(a, i, best) ==
    IF i >= Len(a) THEN best
    ELSE ArgminScan(a, i + 1, IF a[i + 1] < a[best + 1] THEN i ELSE best)

\* argmin that keeps the last index of the minimum instead of the first
RECURSIVE ArgminLastScan(_, _, _)
ArgminLastScan(a, i, best) ==
    IF i >= Len(a) THEN best
    ELSE ArgminLastScan(a, i + 1, IF a[i + 1] <= a[best + 1] THEN i ELSE best)
argmin_last(a) == IF Len(a) = 0 THEN -1 ELSE ArgminLastScan(a, 1, 0)

argmin(a) == IF Len(a) = 0 THEN -1 ELSE ArgminScan(a, 1, 0)

----------------------------------------------------------------------------
(* estimate_added_range, in range units *)

\* estimate_added_range with the difference taken the other way round
estimate_added_range_reversed(battery_state, target_state) ==
    APPROX_MAX_RANGE_KM * (battery_state - target_state)

estimate_added_range(battery_state, target_state) ==
    APPROX_MAX_RANGE_KM * (target_state - battery_state)

----------------------------------------------------------------------------
(* create_charging_plan *)

HourlyPrice(start, price) == [start |-> start, price_kwh_dkk |-> price]

ChargingPlan(start_time, end_time, battery_start, battery_end, cost, range_added) ==
    [start_time |-> start_time, end_time |-> end_time,
     battery_start |-> battery_start, battery_end |-> battery_end,
     total_cost_dkk |-> cost, range_added_km |-> range_added]

ChargingRequestResponse(success, reason, plan) ==
    [success |-> success, reason |-> reason, plan |-> plan]

\* the filter loop without the test on hours in the past
RECURSIVE ValidLoop_keep_past(_, _, _, _, _)
ValidLoop_keep_past(hourly_prices, ready_by, now, k, hourly_prices_valid) ==
    IF k > Len(hourly_prices) THEN hourly_prices_valid
    ELSE LET p == hourly_prices[k]
             valid == IF ready_by # None THEN p.start + HOUR <= ready_by[1] ELSE TRUE
         IN  ValidLoop_keep_past(hourly_prices, ready_by, now, k + 1,
                                 IF valid THEN Append(hourly_prices_valid, p)
                                 ELSE hourly_prices_valid)

\* the filter loop comparing the start of the hour, not its end, with ready_by
RECURSIVE ValidLoop_start_by(_, _, _, _, _)
ValidLoop_start_by(hourly_prices, ready_by, now, k, hourly_prices_valid) ==
    IF k > Len(hourly_prices) THEN hourly_prices_valid
    ELSE LET p == hourly_prices[k]
             in_future == p.start >= now[k] - HOUR
             valid == IF ready_by # None
                      THEN in_future /\ p.start <= ready_by[1]
                      ELSE in_future
         IN  ValidLoop_start_by(hourly_prices, ready_by, now, k + 1,
                                IF valid THEN Append(hourly_prices_valid, p)
                                ELSE hourly_prices_valid)

\* the loop 'for p in hourly_prices' from entry k (1-based) with the list
\* built so far; now[k] is what dt.datetime.now() returns for entry k
RECURSIVE ValidLoop(_, _, _, _, _)
ValidLoop(hourly_prices, ready_by, now, k, hourly_prices_valid) ==
    IF k > Len(hourly_prices) THEN hourly_prices_valid
    ELSE LET p == hourly_prices[k]
             in_future == p.start >= now[k] - HOUR
             valid == IF ready_by # None
                      THEN in_future /\ p.start + HOUR <= ready_by[1]
                      ELSE in_future
         IN  ValidLoop(hourly_prices, ready_by, now, k + 1,
                       IF valid THEN Append(hourly_prices_valid, p)
                       ELSE hourly_prices_valid)

HourlyPricesValid(hourly_prices, ready_by, now) ==
    ValidLoop(hourly_prices, ready_by, now, 1, <<>>)

PricesAfterRefund(hourly_prices_valid) ==
    [k \in 1..Len(hourly_prices_valid) |->
        hourly_prices_valid[k].price_kwh_dkk - TAX_REFUND_DKK_KWH]

\* the choice between the two strategies with < in place of <=
PickCheapest_strict(vehicle_charge_state, charging_request, hourly_prices_valid, need) ==
    LET prices_after_refund == PricesAfterRefund(hourly_prices_valid)
        full_hour_total_prices == convolve_valid(prices_after_refund, need.energy_signal)
        partial_hour_energy_need == shift_fractional_forward(need)
        partial_hour_total_prices ==
            convolve_valid(prices_after_refund, partial_hour_energy_need.energy_signal)
        range_added == estimate_added_range(vehicle_charge_state.battery_level,
                                            charging_request.battery_target)
    IN  IF full_hour_total_prices = <<>> \/ partial_hour_total_prices = <<>>
        THEN Raised("ValueError", "min() arg is an empty sequence")
        ELSE IF min(full_hour_total_prices) < min(partial_hour_total_prices)
        THEN LET start_idx == argmin(full_hour_total_prices)
                 start_time == hourly_prices_valid[start_idx + 1].start
                 end_time == start_time + need.hours_required
             IN  Returned(ChargingRequestResponse(TRUE, "",
                    Some(ChargingPlan(start_time, end_time,
                                      vehicle_charge_state.battery_level,
                                      charging_request.battery_target,
                                      min(full_hour_total_prices), range_added))))
        ELSE LET start_idx == argmin(partial_hour_total_prices)
                 starting_hour == hourly_prices_valid[start_idx + 1].start
                 hourly_fraction == modf(need.hours_required)[1]
                 minutes_into_hour == HOUR - hourly_fraction
                 start_time == starting_hour + minutes_into_hour
                 end_time == start_time + need.hours_required
             IN  Returned(ChargingRequestResponse(TRUE, "",
                    Some(ChargingPlan(start_time, end_time,
                                      vehicle_charge_state.battery_level,
                                      charging_request.battery_target,
                                      min(partial_hour_total_prices), range_added))))

\* the fractional start placed hourly_fraction into the hour, not 1 - hourly_fraction
PickCheapest_fraction_in(vehicle_charge_state, charging_request, hourly_prices_valid, need) ==
    LET prices_after_refund == PricesAfterRefund(hourly_prices_valid)
        full_hour_total_prices == convolve_valid(prices_after_refund, need.energy_signal)
        partial_hour_energy_need == shift_fractional_forward(need)
        partial_hour_total_prices ==
            convolve_valid(prices_after_refund, partial_hour_energy_need.energy_signal)
        range_added == estimate_added_range(vehicle_charge_state.battery_level,
                                            charging_request.battery_target)
    IN  IF full_hour_total_prices = <<>> \/ partial_hour_total_prices = <<>>
        THEN Raised("ValueError", "min() arg is an empty sequence")
        ELSE IF min(full_hour_total_prices) <= min(partial_hour_total_prices)
        THEN LET start_idx == argmin(full_hour_total_prices)
                 start_time == hourly_prices_valid[start_idx + 1].start
                 end_time == start_time + need.hours_required
             IN  Returned(ChargingRequestResponse(TRUE, "",
                    Some(ChargingPlan(start_time, end_time,
                                      vehicle_charge_state.battery_level,
                                      charging_request.battery_target,
                                      min(full_hour_total_prices), range_added))))
        ELSE LET start_idx == argmin(partial_hour_total_prices)
                 starting_hour == hourly_prices_valid[start_idx + 1].start
                 hourly_fraction == modf(need.hours_required)[1]
                 minutes_into_hour == hourly_fraction
                 start_time == starting_hour + minutes_into_hour
                 end_time == start_time + need.hours_required
             IN  Returned(ChargingRequestResponse(TRUE, "",
                    Some(ChargingPlan(start_time, end_time,
                                      vehicle_charge_state.battery_level,
                                      charging_request.battery_target,
                                      min(partial_hour_total_prices), range_added))))

\* lines 167-207: the two cost sequences and the choice between them
PickCheapest(vehicle_charge_state, charging_request, hourly_prices_valid, need) ==
    LET prices_after_refund == PricesAfterRefund(hourly_prices_valid)
        full_hour_total_prices == convolve_valid(prices_after_refund, need.energy_signal)
        partial_hour_energy_need == shift_fractional_forward(need)
        partial_hour_total_prices ==
            convolve_valid(prices_after_refund, partial_hour_energy_need.energy_signal)
        range_added == estimate_added_range(vehicle_charge_state.battery_level,
                                            charging_request.battery_target)
    IN  IF full_hour_total_prices = <<>> \/ partial_hour_total_prices = <<>>
        THEN Raised("ValueError", "min() arg is an empty sequence")
        ELSE IF min(full_hour_total_prices) <= min(partial_hour_total_prices)
        THEN LET start_idx == argmin(full_hour_total_prices)
                 start_time == hourly_prices_valid[start_idx + 1].start
                 end_time == start_time + need.hours_required
             IN  Returned(ChargingRequestResponse(TRUE, "",
                    Some(ChargingPlan(start_time, end_time,
                                      vehicle_charge_state.battery_level,
                                      charging_request.battery_target,
                                      min(full_hour_total_prices), range_added))))
        ELSE LET start_idx == argmin(partial_hour_total_prices)
                 starting_hour == hourly_prices_valid[start_idx + 1].start
                 hourly_fraction == modf(need.hours_required)[1]
                 minutes_into_hour == HOUR - hourly_fraction
                 start_time == starting_hour + minutes_into_hour
                 end_time == start_time + need.hours_required
             IN  Returned(ChargingRequestResponse(TRUE, "",
                    Some(ChargingPlan(start_time, end_time,
                                      vehicle_charge_state.battery_level,
                                      charging_request.battery_target,
                                      min(partial_hour_total_prices), range_added))))

\* create_charging_plan testing for an empty price list first
create_charging_plan_empty_first(vehicle_charge_state, hourly_prices, charging_request, now) ==
    IF Len(hourly_prices) = 0
    THEN Raised("RuntimeError", "Empty list of hourly prices, cannot create charging plan")
    ELSE IF ~(vehicle_charge_state.battery_level < charging_request.battery_target)
    THEN Returned(ChargingRequestResponse(FALSE,
                    "Vehicle battery level already at or above target", None))
    ELSE LET maybe_energy_need == calculate_energy_need(vehicle_charge_state.battery_level,
                                                        charging_request.battery_target)
         IN  IF maybe_energy_need.raised # "" THEN maybe_energy_need
             ELSE IF maybe_energy_need.value = None
             THEN Returned(ChargingRequestResponse(FALSE,
                    "Vehicle battery level already at or above target", None))
             ELSE LET need == maybe_energy_need.value[1]
                      hourly_prices_valid ==
                          HourlyPricesValid(hourly_prices, charging_request.ready_by, now)
                  IN  IF Len(hourly_prices_valid) < ceil(need.hours_required)
                      THEN Returned(ChargingRequestResponse(FALSE,
                             "Not enough time to charge to the requested level", None))
                      ELSE PickCheapest(vehicle_charge_state, charging_request,
                                        hourly_prices_valid, need)

\* create_charging_plan comparing with int(hours_required), not math.ceil
create_charging_plan_floor(vehicle_charge_state, hourly_prices, charging_request, now) ==
    IF ~(vehicle_charge_state.battery_level < charging_request.battery_target)
    THEN Returned(ChargingRequestResponse(FALSE,
                    "Vehicle battery level already at or above target", None))
    ELSE IF Len(hourly_prices) = 0
    THEN Raised("RuntimeError", "Empty list of hourly prices, cannot create charging plan")
    ELSE LET maybe_energy_need == calculate_energy_need(vehicle_charge_state.battery_level,
                                                        charging_request.battery_target)
         IN  IF maybe_energy_need.raised # "" THEN maybe_energy_need
             ELSE IF maybe_energy_need.value = None
             THEN Returned(ChargingRequestResponse(FALSE,
                    "Vehicle battery level already at or above target", None))
             ELSE LET need == maybe_energy_need.value[1]
                      hourly_prices_valid ==
                          HourlyPricesValid(hourly_prices, charging_request.ready_by, now)
                  IN  IF Len(hourly_prices_valid) < modf(need.hours_required)[2]
                      THEN Returned(ChargingRequestResponse(FALSE,
                             "Not enough time to charge to the requested level", None))
                      ELSE PickCheapest(vehicle_charge_state, charging_request,
                                        hourly_prices_valid, need)

\* create_charging_plan without the test for an empty price list
create_charging_plan_no_empty_test(vehicle_charge_state, hourly_prices, charging_request, now) ==
    IF ~(vehicle_charge_state.battery_level < charging_request.battery_target)
    THEN Returned(ChargingRequestResponse(FALSE,
                    "Vehicle battery level already at or above target", None))
    ELSE LET maybe_energy_need == calculate_energy_need(vehicle_charge_state.battery_level,
                                                        charging_request.battery_target)
         IN  IF maybe_energy_need.raised # "" THEN maybe_energy_need
             ELSE IF maybe_energy_need.value = None
             THEN Returned(ChargingRequestResponse(FALSE,
                    "Vehicle battery level already at or above target", None))
             ELSE LET need == maybe_energy_need.value[1]
                      hourly_prices_valid ==
                          HourlyPricesValid(hourly_prices, charging_request.ready_by, now)
                  IN  IF Len(hourly_prices_valid) < ceil(need.hours_required)
                      THEN Returned(ChargingRequestResponse(FALSE,
                             "Not enough time to charge to the requested level", None))
                      ELSE PickCheapest(vehicle_charge_state, charging_request,
                                        hourly_prices_valid, need)

create_charging_plan(vehicle_charge_state, hourly_prices, charging_request, now) ==
    IF ~(vehicle_charge_state.battery_level < charging_request.battery_target)
    THEN Returned(ChargingRequestResponse(FALSE,
                    "Vehicle battery level already at or above target", None))
    ELSE IF Len(hourly_prices) = 0
    THEN Raised("RuntimeError", "Empty list of hourly prices, cannot create charging plan")
    ELSE LET maybe_energy_need == calculate_energy_need(vehicle_charge_state.battery_level,
                                                        charging_request.battery_target)
         IN  IF maybe_energy_need.raised # "" THEN maybe_energy_need
             ELSE IF maybe_energy_need.value = None
             THEN Returned(ChargingRequestResponse(FALSE,
                    "Vehicle battery level already at or above target", None))
             ELSE LET need == maybe_energy_need.value[1]
                      hourly_prices_valid ==
                          HourlyPricesValid(hourly_prices, charging_request.ready_by, now)
                  IN  IF Len(hourly_prices_valid) < ceil(need.hours_required)
                      THEN Returned(ChargingRequestResponse(FALSE,
                             "Not enough time to charge to the requested level", None))
                      ELSE PickCheapest(vehicle_charge_state, charging_request,
                                        hourly_prices_valid, need)

----------------------------------------------------------------------------
(* Bounds and input sets *)

\* battery and target percentages are drawn from -PercentMargin .. 100 + PercentMargin
PercentMargin == 10
\* longest signal passed to convolve_valid
MaxSignal == 3
\* longest price forecast passed to create_charging_plan
MaxPrices == 3

Percentages == (0 - PercentMargin) .. (100 + PercentMargin)

SignalValues == {-1, 0, 1, 2}
Signals == UNION {[1..n -> SignalValues] : n \in 0..MaxSignal}

\* battery levels and targets of the planning calls
PlanLevels == {-1, 50, 75, 90, 97, 100, 110}
\* prices of 0.93, 0.94 and 0.95 DKK/kWh: negative, zero and positive after refund
PriceValues == {93, 94, 95}
\* a forecast of n hours in ascending order, the first one starting at time 0:
\* consecutive hours (g = 0) or with one hour missing after entry g
ForecastStart(k, g) == (k - 1) * HOUR + (IF g > 0 /\ k > g THEN HOUR ELSE 0)
Forecasts == UNION {{[k \in 1..n |-> HourlyPrice(ForecastStart(k, fg[2]), fg[1][k])] :
                        fg \in [1..n -> PriceValues] \X (0..(IF n > 0 THEN n - 1 ELSE 0))} :
                    n \in 0..MaxPrices}
\* the clock at the call: on an hour boundary or in the middle of an hour
ClockValues == {HOUR, HOUR + HOUR \div 2}
\* n readings of a clock that does not run backwards
ClockReadings(n) == {[k \in 1..n |-> IF k < j THEN c1 ELSE c2] :
                        <<c1, c2, j>> \in {t \in ClockValues \X ClockValues \X (1..(n + 1)) :
                                              t[1] <= t[2]}}
ReadyByValues == {None, Some(3 * HOUR), Some(4 * HOUR)}

VehicleChargeState(level) ==
    [battery_level |-> level, range_km |-> 0, minutes_to_full_charge |-> 0]
ChargingRequest(battery_target, ready_by) ==
    [battery_target |-> battery_target, ready_by |-> ready_by]

EnergyIdle == /\ battery = 0 /\ target = 0
              /\ energy_need = Returned(None) /\ shifted_need = None
ConvolveIdle == signal1 = <<>> /\ signal2 = <<>> /\ convolved = <<>>
PlanIdle == /\ vehicle = VehicleChargeState(0) /\ prices = <<>>
            /\ request = ChargingRequest(0, None) /\ clock = <<>>
            /\ response = Returned(None)

----------------------------------------------------------------------------
(* ApplicationState (src/main.py) *)

\* most events of one run: state changes of the charger, price fetches of the
\* job and web requests together
MaxEvents == 3

DEFAULT_CHARGING_REQUEST == ChargingRequest(100, None)

\* dt.datetime.now() of the application: the start of the second forecast hour
NOW == HOUR

\* what get_energy_prices() returns: four hours from time 0
TodayPrices == [k \in 1..4 |-> HourlyPrice((k - 1) * HOUR, <<94, 95, 94, 93>>[k])]
NewPrices == [k \in 1..4 |-> HourlyPrice((k - 1) * HOUR, <<93, 95, 95, 95>>[k])]
AppForecasts == {TodayPrices, NewPrices}
\* battery levels get_vehicle_charge_state() reports
VehicleLevels == {50, 100}
\* requests posted to /charging_request, which always carry a ready_by: a
\* target of 0, a deadline ahead and a deadline that has passed
WebRequests == {ChargingRequest(0, Some(4 * HOUR)), ChargingRequest(80, Some(4 * HOUR)),
                ChargingRequest(80, Some(0))}
\* chargerOpMode values
OpModes == {"DISCONNECTED", "AWAITING_START", "READY_TO_CHARGE", "CHARGING", "COMPLETED"}

\* the coroutines: smart_charge, _try_update_prices and the on_charging_request
\* of the web server's single worker thread
Tasks == {"watcher", "job", "web"}
Task(pc0, arg) ==
    [pc |-> pc0, reply |-> "", new_charging_plan |-> None,
     result |-> Returned(None), arg |-> arg, count |-> 0]
\* locals and history of _try_update_prices: the prices fetched last, whether
\* on_new_hourly_prices stored a forecast differing from the stored one, and
\* whether a plan_charging call made for it has returned
JobArg(fetched, stored_new, planned) ==
    [prices |-> fetched, stored_new |-> stored_new, planned |-> planned]

AppIdle ==
    /\ self_hourly_prices = <<>> /\ self_vehicle_charge_state = None
    /\ self_charging_plan = None /\ self_charging_request = DEFAULT_CHARGING_REQUEST
    /\ charger = [op_mode |-> "DISCONNECTED", basic_charge_plan |-> None, changes |-> 0]
    /\ queue = <<>>
    /\ tasks = [t \in Tasks |-> Task("idle", None)]

\* lines 86-89: a request whose ready_by has passed is replaced by the default
reset_old_request(charging_request) ==
    IF charging_request.ready_by # None /\ charging_request.ready_by[1] < NOW
    THEN DEFAULT_CHARGING_REQUEST ELSE charging_request

\* plan_charging storing the new plan before schedule_charge is awaited
plan_charging_stores_early(result, charging_request, charging_plan) ==
    IF result.raised # ""
    THEN [outcome |-> "raise", result |-> result, new_charging_plan |-> None,
          charging_request |-> charging_request, charging_plan |-> charging_plan]
    ELSE IF ~result.value.success
    THEN [outcome |-> "return", result |-> result, new_charging_plan |-> None,
          charging_request |-> charging_request, charging_plan |-> charging_plan]
    ELSE IF result.value.plan = charging_plan
    THEN [outcome |-> "return",
          result |-> Returned(ChargingRequestResponse(FALSE, "Charging plan unchanged", None)),
          new_charging_plan |-> None,
          charging_request |-> charging_request, charging_plan |-> charging_plan]
    ELSE [outcome |-> "await", result |-> result,
          new_charging_plan |-> result.value.plan,
          charging_request |-> charging_request, charging_plan |-> result.value.plan]

\* lines 93-103, given the outcome of create_charging_plan: what plan_charging
\* returns or raises, or the plan it is about to schedule (outcome "await"),
\* and the request and plan it leaves stored
plan_charging_result(result, charging_request, charging_plan) ==
    IF result.raised # ""
    THEN [outcome |-> "raise", result |-> result, new_charging_plan |-> None,
          charging_request |-> charging_request, charging_plan |-> charging_plan]
    ELSE IF ~result.value.success
    THEN [outcome |-> "return", result |-> result, new_charging_plan |-> None,
          charging_request |-> charging_request, charging_plan |-> charging_plan]
    ELSE IF result.value.plan = charging_plan
    THEN [outcome |-> "return",
          result |-> Returned(ChargingRequestResponse(FALSE, "Charging plan unchanged", None)),
          new_charging_plan |-> None,
          charging_request |-> charging_request, charging_plan |-> charging_plan]
    ELSE [outcome |-> "await", result |-> result,
          new_charging_plan |-> result.value.plan,
          charging_request |-> charging_request, charging_plan |-> charging_plan]

\* plan_charging up to its first suspension, lines 81-103.  The fourth argument
\* of the call in line 92, FULL_CHARGE_SAFETY_MARGIN_MINUTES, is not a
\* parameter of the create_charging_plan of src/ladning/charging_plan.py and
\* is left out
plan_charging_sync(vehicle_charge_state, hourly_prices, charging_request, charging_plan) ==
    IF vehicle_charge_state = None
    THEN [outcome |-> "return",
          result |-> Returned(ChargingRequestResponse(FALSE,
                       "Skipping planning due to no vehicle charge state information", None)),
          new_charging_plan |-> None,
          charging_request |-> charging_request, charging_plan |-> charging_plan]
    ELSE plan_charging_result(
             create_charging_plan(vehicle_charge_state[1], hourly_prices,
                                  reset_old_request(charging_request),
                                  [k \in 1..Len(hourly_prices) |-> NOW]),
             reset_old_request(charging_request), charging_plan)

\* lines 103-106 once set_basic_charge_plan has answered: schedule_charge raises
\* unless response.ok, else the new plan is stored and the result returned
plan_charging_resumed(reply, new_charging_plan, result, charging_plan) ==
    IF reply = "ok"
    THEN [outcome |-> "return", result |-> result, charging_plan |-> new_charging_plan]
    ELSE [outcome |-> "raise",
          result |-> Raised("RuntimeError", "Scheduling charge failed"),
          charging_plan |-> charging_plan]

\* the position of a caller after a step of plan_charging
AfterPlanCharging(outcome, pc_return, pc_raise) ==
    CASE outcome = "await" -> "set_plan"
      [] outcome = "return" -> pc_return
      [] outcome = "raise" -> pc_raise

\* on_charging_request without the return to the default request
on_charging_request_keeps(result, charging_request) == charging_request

\* lines 153-156: the request on_charging_request leaves stored when
\* plan_charging has returned result
on_charging_request_stored(result, charging_request) ==
    IF ~result.value.success THEN DEFAULT_CHARGING_REQUEST ELSE charging_request

----------------------------------------------------------------------------
(* Calls of calculate_energy_need and shift_fractional_forward *)

InitEnergy ==
    /\ pc = "energy_call"
    /\ battery \in Percentages /\ target \in Percentages
    /\ energy_need = Returned(None) /\ shifted_need = None
    /\ ConvolveIdle /\ PlanIdle /\ AppIdle

CallCalculateEnergyNeed ==
    /\ pc = "energy_call"
    /\ energy_need' = calculate_energy_need(battery, target)
    /\ pc' = "energy_returned"
    /\ UNCHANGED <<battery, target, shifted_need, signal1, signal2, convolved,
                   vehicle, prices, request, clock, response>>
    /\ UNCHANGED appVars

CallShiftFractionalForward ==
    /\ pc = "energy_returned"
    /\ energy_need.raised = "" /\ energy_need.value # None
    /\ shifted_need' = Some(shift_fractional_forward(energy_need.value[1]))
    /\ pc' = "energy_shifted"
    /\ UNCHANGED <<battery, target, energy_need, signal1, signal2, convolved,
                   vehicle, prices, request, clock, response>>
    /\ UNCHANGED appVars

NextEnergy == CallCalculateEnergyNeed \/ CallShiftFractionalForward
SpecEnergy == InitEnergy /\ [][NextEnergy]_vars

----------------------------------------------------------------------------
(* Calls of convolve_valid *)

InitConvolve ==
    /\ pc = "convolve_call"
    /\ signal1 \in Signals /\ signal2 \in Signals
    /\ convolved = <<>>
    /\ EnergyIdle /\ PlanIdle /\ AppIdle

CallConvolveValid ==
    /\ pc = "convolve_call"
    /\ convolved' = convolve_valid(signal1, signal2)
    /\ pc' = "convolve_returned"
    /\ UNCHANGED <<battery, target, energy_need, shifted_need, signal1, signal2,
                   vehicle, prices, request, clock, response>>
    /\ UNCHANGED appVars

NextConvolve == CallConvolveValid
SpecConvolve == InitConvolve /\ [][NextConvolve]_vars

----------------------------------------------------------------------------
(* Calls of create_charging_plan *)

InitPlan ==
    /\ pc = "plan_call"
    /\ vehicle \in {VehicleChargeState(b) : b \in PlanLevels}
    /\ request \in {ChargingRequest(t, r) : t \in PlanLevels, r \in ReadyByValues}
    /\ prices \in Forecasts
    /\ clock \in ClockReadings(Len(prices))
    /\ response = Returned(None)
    /\ EnergyIdle /\ ConvolveIdle /\ AppIdle

CallCreateChargingPlan ==
    /\ pc = "plan_call"
    /\ response' = create_charging_plan(vehicle, prices, request, clock)
    /\ pc' = "plan_returned"
    /\ UNCHANGED <<battery, target, energy_need, shifted_need, signal1, signal2,
                   convolved, vehicle, prices, request, clock>>
    /\ UNCHANGED appVars

NextPlan == CallCreateChargingPlan
SpecPlan == InitPlan /\ [][NextPlan]_vars

----------------------------------------------------------------------------
(* Calls of create_charging_plan made while a forecast hour ends *)

\* the clock at the call: the instant the second forecast hour ends, and one
\* time unit (0.22 s) later
LateClockValues == {2 * HOUR, 2 * HOUR + 1}
LateClockReadings(n) == {[k \in 1..n |-> IF k < j THEN c1 ELSE c2] :
                            <<c1, c2, j>> \in {t \in LateClockValues \X LateClockValues
                                                       \X (1..(n + 1)) : t[1] <= t[2]}}

InitPlanLate ==
    /\ pc = "plan_call"
    /\ vehicle \in {VehicleChargeState(b) : b \in PlanLevels}
    /\ request \in {ChargingRequest(t, r) : t \in PlanLevels, r \in ReadyByValues}
    /\ prices \in Forecasts
    /\ clock \in LateClockReadings(Len(prices))
    /\ response = Returned(None)
    /\ EnergyIdle /\ ConvolveIdle /\ AppIdle

SpecPlanLate == InitPlanLate /\ [][NextPlan]_vars

----------------------------------------------------------------------------
(* The application: the coroutines of main() on one event loop.  A coroutine
   runs from one suspension to the next without interruption; it is suspended
   while a call of the charger API is under way, while the watcher waits for
   a state change and while the price job sleeps. *)

InitApp ==
    /\ pc = "app" /\ EnergyIdle /\ ConvolveIdle /\ PlanIdle
    \* the forecast main() fetches before it constructs ApplicationState
    /\ self_hourly_prices = TodayPrices
    /\ self_vehicle_charge_state = None
    /\ self_charging_plan = None
    /\ self_charging_request = DEFAULT_CHARGING_REQUEST
    /\ charger \in {[op_mode |-> m, basic_charge_plan |-> None, changes |-> 0] : m \in OpModes}
    \* listen_for_charging_states first yields (None, current state)
    /\ queue = <<<<"None", charger.op_mode>>>>
    /\ tasks = [t \in Tasks |->
                  IF t = "watcher" THEN Task("listening", None)
                  ELSE IF t = "job" THEN Task("idle", JobArg(<<>>, FALSE, FALSE))
                  ELSE Task("idle", DEFAULT_CHARGING_REQUEST)]

\* smart_charge has not raised: main() has not shut the application down
Running == tasks["watcher"].pc # "crashed"

\* the events so far
Events == charger.changes + tasks["job"].count + tasks["web"].count

\* _signalr_callback: the charger reports a new chargerOpMode
ChargerStateChange(new_charging_state) ==
    /\ Running
    /\ Events < MaxEvents
    /\ new_charging_state # charger.op_mode
    /\ queue' = Append(queue, <<charger.op_mode, new_charging_state>>)
    /\ charger' = [charger EXCEPT !.op_mode = new_charging_state, !.changes = @ + 1]
    /\ UNCHANGED <<self_hourly_prices, self_vehicle_charge_state, self_charging_plan,
                   self_charging_request, tasks>>
    /\ UNCHANGED plannerVars

\* the charger serves the API call of task t: set_basic_charge_plan (accepted
\* or refused), get_basic_charge_plan or delete_basic_charge_plan
ChargerServes(t) ==
    /\ Running
    /\ tasks[t].pc \in {"set_plan", "get_plan", "delete_plan"}
    /\ tasks[t].reply = ""
    /\ \/ /\ tasks[t].pc = "set_plan"
          /\ \/ /\ charger' = [charger EXCEPT !.basic_charge_plan =
                                  Some(<<tasks[t].new_charging_plan[1].start_time,
                                         tasks[t].new_charging_plan[1].end_time>>)]
                /\ tasks' = [tasks EXCEPT ![t].reply = "ok"]
             \/ /\ charger' = charger
                /\ tasks' = [tasks EXCEPT ![t].reply = "not_ok"]
       \/ /\ tasks[t].pc = "get_plan"
          /\ charger' = charger
          /\ tasks' = [tasks EXCEPT ![t].reply =
                          IF charger.basic_charge_plan = None THEN "no_plan" ELSE "plan"]
       \/ /\ tasks[t].pc = "delete_plan"
          /\ charger' = [charger EXCEPT !.basic_charge_plan = None]
          /\ tasks' = [tasks EXCEPT ![t].reply = "ok"]
    /\ UNCHANGED <<self_hourly_prices, self_vehicle_charge_state, self_charging_plan,
                   self_charging_request, queue>>
    /\ UNCHANGED plannerVars

\* planning for every change to a state in which the vehicle can charge,
\* whatever the previous state
perform_planning_any_previous(previous_state, new_state) ==
    new_state \in {"READY_TO_CHARGE", "AWAITING_START", "CHARGING"}

\* lines 69-76: the watcher queries the vehicle and plans
perform_planning(previous_state, new_state) ==
    /\ previous_state \in {"None", "DISCONNECTED"}
    /\ new_state \in {"READY_TO_CHARGE", "AWAITING_START", "CHARGING"}

\* smart_charge takes the next state change: lines 54-78 up to the first
\* suspension
WatcherNext ==
    /\ Running
    /\ tasks["watcher"].pc = "listening"
    /\ queue # <<>>
    /\ queue' = Tail(queue)
    /\ LET previous_state == Head(queue)[1]
           new_state == Head(queue)[2]
       IN  IF new_state = "DISCONNECTED"
           THEN \* cancel_charging: await charger.get_basic_charge_plan()
                /\ tasks' = [tasks EXCEPT !["watcher"].pc = "get_plan",
                                          !["watcher"].reply = ""]
                /\ UNCHANGED <<self_vehicle_charge_state, self_charging_plan,
                               self_charging_request>>
           ELSE IF new_state = "COMPLETED"
           THEN \* complete_charging
                /\ self_charging_plan' = None
                /\ self_charging_request' = DEFAULT_CHARGING_REQUEST
                /\ self_vehicle_charge_state' = None
                /\ UNCHANGED tasks
           ELSE IF perform_planning(previous_state, new_state)
           THEN \/ \* get_vehicle_charge_state raises
                   /\ tasks' = [tasks EXCEPT !["watcher"].pc = "crashed",
                                             !["watcher"].result =
                                                 Raised("RuntimeError", "get_vehicle_charge_state")]
                   /\ UNCHANGED <<self_vehicle_charge_state, self_charging_plan,
                                  self_charging_request>>
                \/ \E level \in VehicleLevels :
                     \E sync \in {plan_charging_sync(Some(VehicleChargeState(level)),
                                       self_hourly_prices, self_charging_request,
                                       self_charging_plan)} :
                         /\ self_vehicle_charge_state' = Some(VehicleChargeState(level))
                         /\ self_charging_request' = sync.charging_request
                         /\ self_charging_plan' = sync.charging_plan
                         /\ tasks' = [tasks EXCEPT
                                !["watcher"].pc = AfterPlanCharging(sync.outcome,
                                                                    "listening", "crashed"),
                                !["watcher"].reply = "",
                                !["watcher"].new_charging_plan = sync.new_charging_plan,
                                !["watcher"].result = sync.result]
           ELSE UNCHANGED <<self_vehicle_charge_state, self_charging_plan,
                            self_charging_request, tasks>>
    /\ UNCHANGED <<self_hourly_prices, charger>>
    /\ UNCHANGED plannerVars

\* cancel_charging after get_basic_charge_plan: lines 114-123 and 59, or the
\* await of delete_basic_charge_plan
WatcherCancelGotPlan ==
    /\ Running
    /\ tasks["watcher"].pc = "get_plan"
    /\ tasks["watcher"].reply # ""
    /\ IF tasks["watcher"].reply = "no_plan"
       THEN /\ self_charging_plan' = None
            /\ self_charging_request' = DEFAULT_CHARGING_REQUEST
            /\ self_vehicle_charge_state' = None
            /\ tasks' = [tasks EXCEPT !["watcher"].pc = "listening", !["watcher"].reply = ""]
       ELSE /\ tasks' = [tasks EXCEPT !["watcher"].pc = "delete_plan", !["watcher"].reply = ""]
            /\ UNCHANGED <<self_vehicle_charge_state, self_charging_plan,
                           self_charging_request>>
    /\ UNCHANGED <<self_hourly_prices, charger, queue>>
    /\ UNCHANGED plannerVars

\* cancel_charging after delete_basic_charge_plan, without the reset of the
\* vehicle charge state that follows it in smart_charge
WatcherCancelDeleted_keeps_vehicle_state ==
    /\ Running
    /\ tasks["watcher"].pc = "delete_plan"
    /\ tasks["watcher"].reply # ""
    /\ self_charging_plan' = None
    /\ self_charging_request' = DEFAULT_CHARGING_REQUEST
    /\ tasks' = [tasks EXCEPT !["watcher"].pc = "listening", !["watcher"].reply = ""]
    /\ UNCHANGED <<self_hourly_prices, self_vehicle_charge_state, charger, queue>>
    /\ UNCHANGED plannerVars

\* cancel_charging after delete_basic_charge_plan: lines 118-123 and 59
WatcherCancelDeleted ==
    /\ Running
    /\ tasks["watcher"].pc = "delete_plan"
    /\ tasks["watcher"].reply # ""
    /\ self_charging_plan' = None
    /\ self_charging_request' = DEFAULT_CHARGING_REQUEST
    /\ self_vehicle_charge_state' = None
    /\ tasks' = [tasks EXCEPT !["watcher"].pc = "listening", !["watcher"].reply = ""]
    /\ UNCHANGED <<self_hourly_prices, charger, queue>>
    /\ UNCHANGED plannerVars

\* the plan_charging of smart_charge after schedule_charge; an exception
\* leaves smart_charge and ends main()
WatcherScheduled ==
    /\ Running
    /\ tasks["watcher"].pc = "set_plan"
    /\ tasks["watcher"].reply # ""
    /\ \E resumed \in {plan_charging_resumed(tasks["watcher"].reply,
                                               tasks["watcher"].new_charging_plan,
                                               tasks["watcher"].result, self_charging_plan)} :
           /\ self_charging_plan' = resumed.charging_plan
           /\ tasks' = [tasks EXCEPT
                  !["watcher"].pc = AfterPlanCharging(resumed.outcome, "listening", "crashed"),
                  !["watcher"].reply = "",
                  !["watcher"].new_charging_plan = None,
                  !["watcher"].result = resumed.result]
    /\ UNCHANGED <<self_hourly_prices, self_vehicle_charge_state, self_charging_request,
                   charger, queue>>
    /\ UNCHANGED plannerVars

\* one pass of the loop of _try_update_prices, started by the cron trigger or
\* after the sleep: get_energy_prices raises, or on_new_hourly_prices runs up
\* to its return or to the suspension in plan_charging
JobAttempt ==
    /\ Running
    /\ tasks["job"].pc \in {"idle", "sleeping"}
    /\ Events < MaxEvents
    /\ \/ /\ tasks' = [tasks EXCEPT !["job"].pc = "sleeping", !["job"].count = @ + 1,
                                    !["job"].result = Raised("Exception", "get_energy_prices")]
          /\ UNCHANGED <<self_hourly_prices, self_charging_plan, self_charging_request>>
       \/ \E hourly_prices \in AppForecasts :
            IF hourly_prices = self_hourly_prices
            THEN /\ tasks' = [tasks EXCEPT !["job"].pc = "done", !["job"].count = @ + 1,
                                           !["job"].arg.prices = hourly_prices,
                                           !["job"].result = Returned(None)]
                 /\ UNCHANGED <<self_hourly_prices, self_charging_plan, self_charging_request>>
            ELSE \E sync \in {plan_charging_sync(self_vehicle_charge_state, hourly_prices,
                                    self_charging_request, self_charging_plan)} :
                     /\ self_hourly_prices' = hourly_prices
                     /\ self_charging_request' = sync.charging_request
                     /\ self_charging_plan' = sync.charging_plan
                     /\ tasks' = [tasks EXCEPT
                            !["job"].pc = AfterPlanCharging(sync.outcome, "done", "sleeping"),
                            !["job"].count = @ + 1,
                            !["job"].reply = "",
                            !["job"].new_charging_plan = sync.new_charging_plan,
                            !["job"].result = sync.result,
                            !["job"].arg = JobArg(hourly_prices, TRUE, sync.outcome = "return")]
    /\ UNCHANGED <<self_vehicle_charge_state, charger, queue>>
    /\ UNCHANGED plannerVars

\* the plan_charging of on_new_hourly_prices after schedule_charge
JobScheduled ==
    /\ Running
    /\ tasks["job"].pc = "set_plan"
    /\ tasks["job"].reply # ""
    /\ \E resumed \in {plan_charging_resumed(tasks["job"].reply,
                                               tasks["job"].new_charging_plan,
                                               tasks["job"].result, self_charging_plan)} :
           /\ self_charging_plan' = resumed.charging_plan
           /\ tasks' = [tasks EXCEPT
                  !["job"].pc = AfterPlanCharging(resumed.outcome, "done", "sleeping"),
                  !["job"].reply = "",
                  !["job"].new_charging_plan = None,
                  !["job"].result = resumed.result,
                  !["job"].arg.planned = (resumed.outcome = "return")]
    /\ UNCHANGED <<self_hourly_prices, self_vehicle_charge_state, self_charging_request,
                   charger, queue>>
    /\ UNCHANGED plannerVars

\* on_charging_request_sync: on_charging_request up to its return or to the
\* suspension in plan_charging
WebRequest(charging_request) ==
    /\ Running
    /\ tasks["web"].pc \in {"idle", "returned", "raised"}
    /\ Events < MaxEvents
    /\ IF charging_request.battery_target <= 0 \/ charging_request.battery_target > 100
       THEN /\ tasks' = [tasks EXCEPT
                   !["web"].pc = "returned", !["web"].count = @ + 1,
                   !["web"].arg = charging_request,
                   !["web"].result = Returned(ChargingRequestResponse(FALSE,
                                        "Target battery level outside valid range", None))]
            /\ UNCHANGED <<self_charging_plan, self_charging_request>>
       ELSE \E sync \in {plan_charging_sync(self_vehicle_charge_state, self_hourly_prices,
                                           charging_request, self_charging_plan)} :
                /\ self_charging_request' =
                      IF sync.outcome = "return"
                      THEN on_charging_request_stored(sync.result, sync.charging_request)
                      ELSE sync.charging_request
                /\ self_charging_plan' = sync.charging_plan
                /\ tasks' = [tasks EXCEPT
                       !["web"].pc = AfterPlanCharging(sync.outcome, "returned", "raised"),
                       !["web"].count = @ + 1,
                       !["web"].arg = charging_request,
                       !["web"].reply = "",
                       !["web"].new_charging_plan = sync.new_charging_plan,
                       !["web"].result = sync.result]
    /\ UNCHANGED <<self_hourly_prices, self_vehicle_charge_state, charger, queue>>
    /\ UNCHANGED plannerVars

\* the plan_charging of on_charging_request after schedule_charge, and lines
\* 153-156
WebScheduled ==
    /\ Running
    /\ tasks["web"].pc = "set_plan"
    /\ tasks["web"].reply # ""
    /\ \E resumed \in {plan_charging_resumed(tasks["web"].reply,
                                               tasks["web"].new_charging_plan,
                                               tasks["web"].result, self_charging_plan)} :
           /\ self_charging_plan' = resumed.charging_plan
           /\ self_charging_request' =
                 IF resumed.outcome = "return"
                 THEN on_charging_request_stored(resumed.result, self_charging_request)
                 ELSE self_charging_request
           /\ tasks' = [tasks EXCEPT
                  !["web"].pc = AfterPlanCharging(resumed.outcome, "returned", "raised"),
                  !["web"].reply = "",
                  !["web"].new_charging_plan = None,
                  !["web"].result = resumed.result]
    /\ UNCHANGED <<self_hourly_prices, self_vehicle_charge_state, charger, queue>>
    /\ UNCHANGED plannerVars

NextApp ==
    \/ \E m \in OpModes : ChargerStateChange(m)
    \/ \E t \in Tasks : ChargerServes(t)
    \/ WatcherNext
    \/ WatcherCancelGotPlan
    \/ WatcherCancelDeleted
    \/ WatcherScheduled
    \/ JobAttempt
    \/ JobScheduled
    \/ \E r \in WebRequests : WebRequest(r)
    \/ WebScheduled

SpecApp == InitApp /\ [][NextApp]_vars

----------------------------------------------------------------------------
(* Properties of calculate_energy_need and shift_fractional_forward *)

InRange(level) == level >= 0 /\ level <= 100

\* C1: for battery_state < target_state, both in [0,100], calculate_energy_need
\* returns an energy need whose energy_signal sums to
\* (target_state - battery_state)/100 x BATTERY_CAPACITY_KWH
C1_EnergySignalSum ==
    (pc # "energy_call" /\ InRange(battery) /\ InRange(target) /\ battery < target)
    => /\ energy_need.raised = ""
       /\ energy_need.value # None
       /\ sum(energy_need.value[1].energy_signal)
            = (target - battery) * (BATTERY_CAPACITY_KWH \div 100)

\* C2: shift_fractional_forward returns an energy need with the same
\* hours_required, the same number of slots and the same total energy
C2_ShiftPreservesEnergy ==
    pc = "energy_shifted"
    => /\ shifted_need[1].hours_required = energy_need.value[1].hours_required
       /\ Len(shifted_need[1].energy_signal) = Len(energy_need.value[1].energy_signal)
       /\ sum(shifted_need[1].energy_signal) = sum(energy_need.value[1].energy_signal)

----------------------------------------------------------------------------
(* Properties of convolve_valid *)

\* sum over j in [0, m-1] of signal1[i+j] * signal2[j], for a 0-based offset i
WindowCost(s1, s2, i) == sum([j \in 1..Len(s2) |-> s1[i + j] * s2[j]])

\* C6: convolve_valid returns the valid cross-correlation: for 1 <= m <= n
\* exactly n-m+1 entries, entry i being the sum over j of
\* signal1[i+j]*signal2[j]; the empty list when m > n or an input is empty
C6_ValidCrossCorrelation ==
    pc = "convolve_returned"
    => LET n == Len(signal1)
           m == Len(signal2)
       IN  IF 1 <= m /\ m <= n
           THEN /\ Len(convolved) = n - m + 1
                /\ \A i \in 0..(n - m) : convolved[i + 1] = WindowCost(signal1, signal2, i)
           ELSE convolved = <<>>

\* a call with several offsets and several terms per entry, whose entries differ
C6_Witness ==
    /\ pc = "convolve_returned"
    /\ Len(signal2) >= 2 /\ Len(signal1) > Len(signal2)
    /\ Len(convolved) = Len(signal1) - Len(signal2) + 1
    /\ convolved[1] # convolved[2]
    /\ convolved[2] = signal1[2] * signal2[1] + signal1[3] * signal2[2]

----------------------------------------------------------------------------
(* Properties of create_charging_plan *)

PlanDone == pc = "plan_returned"
\* the call returned a response with success = True
Succeeded == PlanDone /\ response.raised = "" /\ response.value.success
ThePlan == response.value.plan[1]
NoOpResponse ==
    Returned(ChargingRequestResponse(FALSE,
               "Vehicle battery level already at or above target", None))
NotEnoughTimeResponse ==
    Returned(ChargingRequestResponse(FALSE,
               "Not enough time to charge to the requested level", None))

\* the energy need of the call (defined when battery level < target, both in range)
TheNeed == calculate_energy_need(vehicle.battery_level, request.battery_target).value[1]
NeedDefined == /\ InRange(vehicle.battery_level) /\ InRange(request.battery_target)
               /\ vehicle.battery_level < request.battery_target
\* the admissible price entries and their tax-adjusted prices P
Admissible == HourlyPricesValid(prices, request.ready_by, clock)
P == PricesAfterRefund(Admissible)
\* the two energy signals E
E_full == TheNeed.energy_signal
E_frac == shift_fractional_forward(TheNeed).energy_signal
\* start offsets i in [0, n-m] and the window costs of a signal
Offsets(E) == 0..(Len(P) - Len(E))
Costs(E) == {WindowCost(P, E, i) : i \in Offsets(E)}
Least(S) == CHOOSE c \in S : \A d \in S : c <= d
\* the plan starts partway through an hour: the fractional-start strategy won
FractionalStart == \A k \in 1..Len(Admissible) : Admissible[k].start # ThePlan.start_time
WinningSignal == IF FractionalStart THEN E_frac ELSE E_full
WinningOffset == IF FractionalStart THEN HOUR - modf(TheNeed.hours_required)[1] ELSE 0

\* C3: on success total_cost_dkk is the minimum window cost over every start
\* offset and both energy signals, and the plan starts in the lowest slot that
\* attains the minimum of the winning strategy's cost sequence
C3_CheapestWindowEarliestSlot ==
    Succeeded
    => /\ ThePlan.total_cost_dkk = Least(Costs(E_full) \cup Costs(E_frac))
       /\ \E i \in Offsets(WinningSignal) :
            /\ Admissible[i + 1].start + WinningOffset = ThePlan.start_time
            /\ WindowCost(P, WinningSignal, i) = Least(Costs(WinningSignal))
            /\ \A h \in 0..(i - 1) :
                 WindowCost(P, WinningSignal, h) > WindowCost(P, WinningSignal, i)

\* the minimum is attained at two offsets, both after a dearer one
C3_Witness ==
    /\ Succeeded
    /\ \E g, i, h \in Offsets(WinningSignal) :
         /\ g < i /\ i < h
         /\ WindowCost(P, WinningSignal, g) > WindowCost(P, WinningSignal, i)
         /\ WindowCost(P, WinningSignal, h) = WindowCost(P, WinningSignal, i)
         /\ WindowCost(P, WinningSignal, i) = ThePlan.total_cost_dkk
         /\ Admissible[i + 1].start + WinningOffset = ThePlan.start_time

\* C4: a successful plan for a request with ready_by set ends at or before
\* ready_by, whichever strategy wins
C4_EndsByReadyBy ==
    (Succeeded /\ request.ready_by # None)
    => ThePlan.end_time <= request.ready_by[1]

\* a fractional-start plan that ends exactly at ready_by
C4_Witness ==
    /\ Succeeded /\ request.ready_by # None
    /\ FractionalStart
    /\ Len(E_full) >= 2
    /\ ThePlan.end_time = request.ready_by[1]

\* the hour of entry p overlaps the charging window of the plan
InWindow(p) == ThePlan.start_time < p.start + HOUR /\ p.start < ThePlan.end_time
\* the hour of entry k ended before the call read the clock
Elapsed(k) == prices[k].start + HOUR < clock[1]

\* C5: no part of the charging window lies in an entry whose hour ended
\* before now, only entries of the ongoing hour or a later one take part in
\* the cost search, and the ongoing hour is admissible
C5_ElapsedHoursIgnored ==
    Succeeded
    => /\ \A k \in 1..Len(prices) : Elapsed(k) => ~InWindow(prices[k])
       /\ \A k \in 1..Len(Admissible) : Admissible[k].start + HOUR >= clock[1]
       /\ \A k \in 1..Len(prices) :
            (/\ prices[k].start <= clock[k] /\ clock[k] < prices[k].start + HOUR
             /\ (request.ready_by # None => prices[k].start + HOUR <= request.ready_by[1]))
            => \E a \in 1..Len(Admissible) : Admissible[a] = prices[k]

\* an elapsed hour is strictly the cheapest of the forecast and the plan
\* starts at the start of the ongoing hour
C5_Witness ==
    /\ Succeeded
    /\ \E k \in 1..Len(prices) :
         /\ Elapsed(k)
         /\ \A a \in 1..Len(Admissible) : prices[k].price_kwh_dkk < Admissible[a].price_kwh_dkk
    /\ ~FractionalStart
    /\ ThePlan.start_time < clock[1] /\ clock[1] < ThePlan.start_time + HOUR

\* C7: the fractional-start plan is returned only when the minimum of the
\* fractional-start costs is strictly below the minimum of the hour-aligned
\* costs; with equal minima the plan starts at an entry's start
C7_FractionalOnlyIfStrictlyCheaper ==
    Succeeded
    => /\ FractionalStart => Least(Costs(E_frac)) < Least(Costs(E_full))
       /\ Least(Costs(E_frac)) = Least(Costs(E_full)) => ~FractionalStart

\* equal non-zero minima
C7_Witness ==
    /\ Succeeded
    /\ Least(Costs(E_frac)) = Least(Costs(E_full))
    /\ Least(Costs(E_full)) # 0
    /\ ~FractionalStart

\* C8: with battery level and target in [0,100] and target <= battery level
\* the result is the 'already at or above target' response without a plan,
\* whatever the price list, and nothing is raised
C8_NoOpResponse ==
    (/\ PlanDone /\ InRange(vehicle.battery_level) /\ InRange(request.battery_target)
     /\ request.battery_target <= vehicle.battery_level)
    => response = NoOpResponse

\* target <= battery level and an empty price list
C8_Witness ==
    /\ PlanDone /\ InRange(vehicle.battery_level) /\ InRange(request.battery_target)
    /\ request.battery_target <= vehicle.battery_level
    /\ prices = <<>>
    /\ response = NoOpResponse

\* C9: a planning call with battery level or target outside [0,100] fails
\* with the range RuntimeError of calculate_energy_need and with nothing else
C9_InvalidRangeRaises ==
    (PlanDone /\ (~InRange(vehicle.battery_level) \/ ~InRange(request.battery_target)))
    => /\ response.raised = "RuntimeError"
       /\ response.message \in {"Starting battery state has to be in range [0, 100]",
                                 "Target battery state has to be in range [0, 100]"}

\* C10 as stated: with fewer admissible entries than ceil(hours_required) the
\* result is the 'not enough time' response and nothing is raised; a plan is
\* returned only with at least ceil(hours_required) admissible entries
C10_NotEnoughTimeAnyForecast ==
    /\ (PlanDone /\ NeedDefined /\ Len(Admissible) < ceil(TheNeed.hours_required))
       => response = NotEnoughTimeResponse
    /\ Succeeded => Len(Admissible) >= ceil(TheNeed.hours_required)

\* C10 amended: the same for a non-empty price list
C10_NotEnoughTime ==
    /\ (/\ PlanDone /\ NeedDefined /\ prices # <<>>
        /\ Len(Admissible) < ceil(TheNeed.hours_required))
       => response = NotEnoughTimeResponse
    /\ Succeeded => Len(Admissible) >= ceil(TheNeed.hours_required)

\* some entries are admissible, but one fewer than the need takes
C10_Witness ==
    /\ PlanDone /\ NeedDefined
    /\ Len(Admissible) >= 1
    /\ Len(Admissible) = ceil(TheNeed.hours_required) - 1
    /\ response = NotEnoughTimeResponse

\* C11: with an empty price list and a target above the battery level, both in
\* [0,100], the call raises the empty-forecast RuntimeError and returns no
\* response object
C11_EmptyForecastRaises ==
    (PlanDone /\ NeedDefined /\ prices = <<>>)
    => /\ response.raised = "RuntimeError"
       /\ response.message = "Empty list of hourly prices, cannot create charging plan"
       /\ response.value = None

\* create_charging_plan(90%, [], target 100%) has raised
C11_Witness ==
    /\ PlanDone /\ prices = <<>>
    /\ vehicle.battery_level = 90 /\ request.battery_target = 100
    /\ response.raised = "RuntimeError"

\* C12: when the fractional-start strategy wins, the plan starts (1 - f) hours
\* after the start of the chosen slot, f being the fractional part of
\* hours_required: strictly between the start of that slot and the start of the
\* next one, and the charge ends on an hour boundary of the price grid
C12_FractionalStartTime ==
    (Succeeded /\ FractionalStart)
    => LET f == TheNeed.hours_required % HOUR
       IN  \E i \in Offsets(E_frac) :
             /\ WindowCost(P, E_frac, i) = ThePlan.total_cost_dkk
             /\ ThePlan.start_time = Admissible[i + 1].start + (HOUR - f)
             /\ Admissible[i + 1].start < ThePlan.start_time
             /\ ThePlan.start_time < Admissible[i + 1].start + HOUR
             /\ (i + 2 <= Len(Admissible) => ThePlan.start_time < Admissible[i + 2].start)
             /\ ThePlan.end_time = Admissible[i + 1].start + Len(E_frac) * HOUR
             /\ ThePlan.end_time % HOUR = 0

\* a fractional-start plan of two slots or more whose chosen slot is not the
\* first admissible one
C12_Witness ==
    /\ Succeeded /\ FractionalStart
    /\ Len(E_frac) >= 2
    /\ ThePlan.start_time > Admissible[2].start
    /\ ThePlan.end_time % HOUR = 0

\* C15: every returned plan has end_time = start_time + hours_required,
\* battery_start = the battery level of the vehicle, battery_end = the
\* requested target and range_added_km = (target - battery level)/100 x
\* APPROX_MAX_RANGE_KM, under both strategies
C15_PlanFields ==
    Succeeded
    => /\ ThePlan.end_time - ThePlan.start_time = TheNeed.hours_required
       /\ ThePlan.battery_start = vehicle.battery_level
       /\ ThePlan.battery_end = request.battery_target
       /\ ThePlan.range_added_km * 100
            = (request.battery_target - vehicle.battery_level) * (APPROX_MAX_RANGE_KM * 100)

\* a fractional-start plan from 50% to 100%: 225 km added
C15_Witness ==
    /\ Succeeded /\ FractionalStart
    /\ ThePlan.battery_start = 50 /\ ThePlan.battery_end = 100
    /\ ThePlan.range_added_km = 225 * 100

\* two outcomes of a call are the same plan or the same failure
SameOutcome(r1, r2) ==
    /\ r1.raised = r2.raised /\ r1.message = r2.message
    /\ r1.raised = "" => r1.value = r2.value

\* C16: the outcome of a planning call is determined by the battery state, the
\* price sequence, the request and the current time at the call: any other
\* call with these inputs that starts at the same time has the same outcome
C16_SameInputsSameOutcome ==
    PlanDone
    => \A other \in LateClockReadings(Len(prices)) :
         (prices # <<>> /\ other[1] = clock[1])
         => SameOutcome(create_charging_plan(vehicle, prices, request, other), response)

----------------------------------------------------------------------------
(* Slots of the energy signal *)

\* calculate_energy_need has returned an energy need
NeedReturned == pc # "energy_call" /\ energy_need.raised = "" /\ energy_need.value # None
ReturnedNeed == energy_need.value[1]

\* C13: every energy need returned by calculate_energy_need has exactly
\* ceil(hours_required) slots, the last one holding the final part of an hour,
\* so with at least ceil(hours_required) admissible prices the cost sequences
\* of the need and of the shifted need are not empty
C13_SlotCount ==
    NeedReturned
    => LET slots == ceil(ReturnedNeed.hours_required)
       IN  /\ Len(ReturnedNeed.energy_signal) = slots
           /\ (slots - 1) * HOUR < ReturnedNeed.hours_required
           /\ ReturnedNeed.hours_required <= slots * HOUR
           /\ \A n \in slots..(slots + 1) :
                Len(convolve_valid(Repeat(1, n), ReturnedNeed.energy_signal)) = n - slots + 1
           /\ pc = "energy_shifted"
              => /\ Len(shifted_need[1].energy_signal) = slots
                 /\ \A n \in slots..(slots + 1) :
                      Len(convolve_valid(Repeat(1, n), shifted_need[1].energy_signal))
                        = n - slots + 1

\* a need across 95% with a slot charged at both rates
C13_Witness ==
    /\ pc = "energy_shifted"
    /\ battery < 95 /\ target > 95
    /\ Len(ReturnedNeed.energy_signal) >= 3
    /\ \E k \in 1..Len(ReturnedNeed.energy_signal) :
         /\ ReturnedNeed.energy_signal[k] > CHARGING_KW_END * HOUR
         /\ ReturnedNeed.energy_signal[k] < CHARGING_KW_MAX * HOUR

\* C14: every slot of a returned energy_signal is strictly positive: no
\* remnant of zero length is stored as a 0 entry, below 95% or across it
C14_SlotsPositive ==
    NeedReturned
    => \A k \in 1..Len(ReturnedNeed.energy_signal) : ReturnedNeed.energy_signal[k] > 0

\* the part above 95% fits wholly into the open hour of the part below: no
\* remnant is left
C14_Witness ==
    /\ NeedReturned
    /\ battery = 94 /\ target = 96
    /\ ReturnedNeed.energy_signal
         = <<CHARGING_KW_MAX * HoursToCharge(1, CHARGING_KW_MAX)
             + CHARGING_KW_END * HoursToCharge(1, CHARGING_KW_END)>>

----------------------------------------------------------------------------
(* Properties of the application *)

\* the tasks suspended inside plan_charging, at the await of schedule_charge
InPlanCharging == {t \in Tasks : tasks[t].pc = "set_plan"}

\* C17: over the three callers of plan_charging (smart_charge, the price job
\* and web requests) at most one planning pass and at most one schedule_charge
\* call is in flight at any time
C17_OnePlanningPassInFlight ==
    Cardinality(InPlanCharging) <= 1

\* C18: when _try_update_prices has finished after fetching a forecast that
\* differed from the stored one, a planning pass for the new forecast has run
\* to completion, also when an attempt raised and the job retried
C18_NewForecastPlanned ==
    (tasks["job"].pc = "done" /\ tasks["job"].arg.stored_new)
    => tasks["job"].arg.planned

\* what a step does to the stored plan and to the charger calls of plan_charging
PlanChargingStep ==
    /\ \A t \in Tasks :
         \* plan_charging of t calls the charger in this step: none of the
         \* three early returns applies, and the stored plan stays
         /\ (tasks[t].pc # "set_plan" /\ tasks'[t].pc = "set_plan")
            => /\ self_vehicle_charge_state' # None
               /\ \E r \in {create_charging_plan(self_vehicle_charge_state'[1],
                                self_hourly_prices', self_charging_request',
                                [k \in 1..Len(self_hourly_prices') |-> NOW])} :
                      /\ r.raised = "" /\ r.value.success
                      /\ r.value.plan # self_charging_plan
                      /\ tasks'[t].new_charging_plan = r.value.plan
               /\ self_charging_plan' = self_charging_plan
         \* plan_charging of t goes on after schedule_charge
         /\ (tasks[t].pc = "set_plan" /\ tasks'[t].pc # "set_plan")
            => IF tasks[t].reply = "ok"
               THEN self_charging_plan' = tasks[t].new_charging_plan
               ELSE self_charging_plan' = self_charging_plan
    \* the stored plan changes in no other step, but for the reset to None of
    \* cancel_charging and complete_charging
    /\ self_charging_plan' # self_charging_plan
       => \/ \E t \in Tasks : /\ tasks[t].pc = "set_plan" /\ tasks[t].reply = "ok"
                              /\ tasks'[t].pc # "set_plan"
                              /\ self_charging_plan' = tasks[t].new_charging_plan
          \/ /\ self_charging_plan' = None
             /\ tasks["watcher"].pc \in {"listening", "get_plan", "delete_plan"}
             /\ tasks'["watcher"].pc = "listening"

\* C19: plan_charging changes _charging_plan only to a plan whose
\* schedule_charge call has returned; without a vehicle charge state, on a
\* planning failure and with an unchanged plan it keeps the stored plan and
\* calls the charger not at all, and it keeps the stored plan when
\* schedule_charge raises
C19_PlanStoredAfterSchedule == [][PlanChargingStep]_vars

\* a web request whose plan the charger accepted: plan stored and on the charger
C19_Witness ==
    /\ pc = "app"
    /\ tasks["web"].pc = "returned" /\ tasks["web"].result.value.success
    /\ self_charging_plan = tasks["web"].result.value.plan
    /\ charger.basic_charge_plan
         = Some(<<self_charging_plan[1].start_time, self_charging_plan[1].end_time>>)

\* what a step of on_charging_request does to the stored request and plan
ChargingRequestStep ==
    LET before == tasks["web"]
        after == tasks'["web"]
        in_range == after.arg.battery_target > 0 /\ after.arg.battery_target <= 100
    IN  \* a call with a target outside 1..100
        /\ (after.count = before.count + 1 /\ ~in_range)
           => /\ after.pc = "returned"
              /\ after.result.raised = ""
              /\ ~after.result.value.success
              /\ after.result.value.reason = "Target battery level outside valid range"
              /\ self_charging_request' = self_charging_request
              /\ self_charging_plan' = self_charging_plan
        \* a call with a target in 1..100 returns a response without success
        /\ (/\ after.pc = "returned"
            /\ (before.pc = "set_plan" \/ after.count = before.count + 1)
            /\ in_range
            /\ ~after.result.value.success)
           => self_charging_request' = DEFAULT_CHARGING_REQUEST

WatcherTakes(new_states) ==
    /\ tasks["watcher"].pc = "listening"
    /\ queue # <<>>
    /\ queue' = Tail(queue)
    /\ Head(queue)[2] \in new_states

\* the stored state after the handling of DISCONNECTED or COMPLETED
StoredStateReset ==
    /\ self_charging_plan' = None
    /\ self_charging_request' = DEFAULT_CHARGING_REQUEST
    /\ self_vehicle_charge_state' = None

\* what the steps of the watcher do for a change to DISCONNECTED or COMPLETED
WatcherResetStep ==
    LET before == tasks["watcher"]
        after == tasks'["watcher"]
    IN  \* COMPLETED is handled in one step, without a call to the charger
        /\ WatcherTakes({"COMPLETED"})
           => /\ StoredStateReset
              /\ after.pc = "listening"
              /\ after.result = before.result
              /\ charger' = charger
        \* DISCONNECTED starts with the read of the charger's plan
        /\ WatcherTakes({"DISCONNECTED"})
           => /\ after.pc = "get_plan"
              /\ after.result = before.result
              /\ charger' = charger
        \* the read has returned: delete the plan that was found, or finish
        /\ (before.pc = "get_plan" /\ after.pc # "get_plan")
           => /\ after.result = before.result
              /\ IF before.reply = "plan"
                 THEN after.pc = "delete_plan"
                 ELSE after.pc = "listening" /\ StoredStateReset
        \* the charger serves the delete
        /\ (before.pc = "delete_plan" /\ before.reply = "" /\ after.reply # "")
           => charger'.basic_charge_plan = None
        \* the delete has returned: finish
        /\ (before.pc = "delete_plan" /\ after.pc # "delete_plan")
           => /\ after.result = before.result
              /\ after.pc = "listening"
              /\ StoredStateReset

\* C21: when the watcher has handled a change to DISCONNECTED or COMPLETED the
\* stored plan is None, the stored request is the default request and the
\* stored vehicle charge state is None; for DISCONNECTED the charger's plan is
\* deleted when get_basic_charge_plan returned one, for COMPLETED the charger
\* is not called; neither change starts a planning pass
C21_ResetOnDisconnectedAndCompleted == [][WatcherResetStep]_vars

\* the watcher planned at the start, the charger took the plan, the vehicle
\* was disconnected and the watcher has cancelled: the plan is deleted
C21_Witness ==
    /\ pc = "app"
    /\ tasks["watcher"].pc = "listening" /\ queue = <<>>
    /\ tasks["job"].pc = "idle" /\ tasks["web"].pc = "idle"
    /\ charger.op_mode = "DISCONNECTED" /\ charger.changes = 1
    /\ tasks["watcher"].result # Returned(None)
    /\ tasks["watcher"].result.raised = ""
    /\ tasks["watcher"].result.value.success
    /\ charger.basic_charge_plan = None
    /\ self_charging_plan = None
    /\ self_charging_request = DEFAULT_CHARGING_REQUEST
    /\ self_vehicle_charge_state = None

\* what a step does to the vehicle charge state and to the watcher's planning
WatcherPlanStep ==
    LET before == tasks["watcher"]
        after == tasks'["watcher"]
        \* get_vehicle_charge_state has returned a state, or has raised
        vehicle_queried ==
            \/ self_vehicle_charge_state' # None
                 /\ self_vehicle_charge_state' # self_vehicle_charge_state
            \/ after.result = Raised("RuntimeError", "get_vehicle_charge_state")
                 /\ after.result # before.result
        \* plan_charging has returned, raised or reached schedule_charge
        planning_pass ==
            \/ after.result # before.result
            \/ before.pc = "listening" /\ after.pc \in {"set_plan", "crashed"}
    IN  /\ WatcherTakes(OpModes)
           => ((vehicle_queried \/ planning_pass)
               => /\ Head(queue)[1] \in {"None", "DISCONNECTED"}
                  /\ Head(queue)[2] \in {"READY_TO_CHARGE", "AWAITING_START", "CHARGING"})
        \* no other step of the application queries the vehicle
        /\ vehicle_queried => WatcherTakes(OpModes)

\* C22: the watcher fetches the vehicle charge state and runs a planning pass
\* for a state change (previous, new) only if previous is None or DISCONNECTED
\* and new is READY_TO_CHARGE, AWAITING_START or CHARGING; every other change
\* brings neither a vehicle query nor a planning pass
C22_PlanningOnlyAfterConnect == [][WatcherPlanStep]_vars

\* the vehicle was connected after the start: the watcher has taken the change
\* to AWAITING_START, queried the vehicle and awaits schedule_charge
C22_Witness ==
    /\ pc = "app"
    /\ queue = <<>>
    /\ charger.op_mode = "AWAITING_START" /\ charger.changes = 1
    /\ tasks["watcher"].pc = "set_plan"
    /\ self_vehicle_charge_state = Some(VehicleChargeState(50))

\* no plan_charging, cancel_charging or on_charging_request is suspended at a
\* call to the charger
NoOperationInFlight ==
    \A t \in Tasks : tasks[t].pc \notin {"set_plan", "get_plan", "delete_plan"}

\* C23: in every state where no planning, cancel or request operation is in
\* flight and the stored plan is not None, the charger's basic charge plan has
\* the stored plan's start and end time, under every interleaving of the
\* plan_charging passes of the watcher, the price job and web requests with
\* each other and with cancel_charging
C23_StoredPlanIsChargerPlan ==
    (pc = "app" /\ NoOperationInFlight /\ self_charging_plan # None)
    => charger.basic_charge_plan
         = Some(<<self_charging_plan[1].start_time, self_charging_plan[1].end_time>>)

\* C24: in every state where no operation is in flight and the stored plan is
\* not None, the stored plan was computed for the stored charging request: its
\* battery_end is the request's battery_target and, when the request has a
\* ready_by, its end_time is not after ready_by; also after a charging request
\* that yields a plan equal to the stored one
C24_StoredPlanForStoredRequest ==
    (pc = "app" /\ NoOperationInFlight /\ self_charging_plan # None)
    => /\ self_charging_plan[1].battery_end = self_charging_request.battery_target
       /\ self_charging_request.ready_by # None
          => self_charging_plan[1].end_time <= self_charging_request.ready_by[1]

====
